---- MODULE Spec2Model ----
(***************************************************************************)
(* Model of the three scanners of BinanceOrderBookAnalyzer:                *)
(*   GITOrderFlowImbalanceAnalyzer.py / GIT_BinanceOrderBookAnalyzer.py    *)
(*     the "flow" pipeline: resolve the universe, run one task per symbol  *)
(*     on a thread pool, collect, re-sort, rank;                           *)
(*   GIT_SwingHighRejectionDetector.py                                     *)
(*     the "candle" scanner: cycles of one task per symbol on a thread     *)
(*     pool, a lock-guarded progress counter and alert output.             *)
(* The variable program selects the script that runs; the reachable states *)
(* of Spec are the union of the states of the scripts.                     *)
(*                                                                         *)
(* Numbers: notional totals are small naturals; a ratio is an exact        *)
(* rational or one of the IEEE specials +inf and nan (record k, n, d).     *)
(***************************************************************************)
EXTENDS Integers, Sequences, FiniteSets, TLC

VARIABLES
    program,              \* "flow" or "candle": the script being run
    pc,                   \* position of the main thread
    max_workers,          \* ThreadPoolExecutor(max_workers=...)
    tasks,                \* the work items / futures of the executor, in submission order
    FINAL_COIN_COUNT,     \* flow: target size of the universe
    cmc_data,             \* flow: result of get_cmc_market_data
    binance_symbols_set,  \* flow: result of get_binance_futures_symbols
    coins_to_analyze,     \* flow: the resolved universe
    all_coin_data,        \* flow: results collected by the main thread
    collected,            \* flow: futures yielded by as_completed so far, in order
    count,                \* flow: number of futures handled by the collection loop
    potential_shorts,     \* flow: ranked short list
    potential_longs,      \* flow: ranked long list
    symbols,              \* candle: result of get_futures_symbols in this cycle
    processed_count,      \* candle: global progress counter
    lock,                 \* candle: 0 when free, else the task holding it
    stdout,               \* candle: lines written to the output stream in this run
    cycle                 \* candle: number of the current cycle

vars == <<program, pc, max_workers, tasks, FINAL_COIN_COUNT, cmc_data,
          binance_symbols_set, coins_to_analyze, all_coin_data, collected, count,
          potential_shorts, potential_longs, symbols, processed_count, lock,
          stdout, cycle>>

flowVars == <<FINAL_COIN_COUNT, cmc_data, binance_symbols_set, coins_to_analyze,
              all_coin_data, collected, count, potential_shorts, potential_longs>>

candleVars == <<symbols, processed_count, lock, stdout, cycle>>

(***************************************************************************)
(* Bounds of the model.                                                    *)
(***************************************************************************)
MaxCandidates == 3    \* longest candidate list fed to the resolver alone
MaxTarget == 2        \* largest FINAL_COIN_COUNT
MaxWorkers == 2       \* largest worker count
MaxSymbols == 2       \* longest symbol list of a candle cycle
MaxCycles == 2        \* cycles of the candle scanner that are followed
MaxTotal == 2         \* largest notional total of the ranking fixtures
MaxDelta == 4         \* largest shift of one price of the pattern fixtures

Min(a, b) == IF a < b THEN a ELSE b

Range(s) == {s[k] : k \in 1..Len(s)}

SeqsUpTo(S, n) == UNION {[1..m -> S] : m \in 0..n}

(***************************************************************************)
(* Floats: exact rationals with the specials of IEEE division.             *)
(***************************************************************************)
Fin(n, d) == [k |-> "fin", n |-> n, d |-> d]
Inf == [k |-> "inf", n |-> 0, d |-> 0]
NaN == [k |-> "nan", n |-> 0, d |-> 0]

\* x > y on floats: false when either side is nan
FloatGt(x, y) ==
    CASE x.k = "nan" \/ y.k = "nan" -> FALSE
      [] x.k = "inf" -> y.k = "fin"
      [] y.k = "inf" -> FALSE
      [] OTHER -> x.n * y.d > y.n * x.d

FloatLt(x, y) == FloatGt(y, x)

\* x == y on floats
FloatEq(x, y) ==
    CASE x.k = "nan" \/ y.k = "nan" -> FALSE
      [] x.k = "inf" \/ y.k = "inf" -> x.k = y.k
      [] OTHER -> x.n * y.d = y.n * x.d

RECURSIVE Gcd(_, _)
Gcd(a, b) == IF b = 0 THEN a ELSE Gcd(b, a % b)

\* x / y on floats for y > 0 (every division of the scripts is guarded by y > 0);
\* the quotient is kept in lowest terms
FloatDiv(x, y) ==
    CASE x.k = "nan" \/ y.k = "nan" -> NaN
      [] x.k = "inf" /\ y.k = "inf" -> NaN
      [] x.k = "inf" -> Inf
      [] y.k = "inf" -> Fin(0, 1)
      [] OTHER -> LET n == x.n * y.d
                      d == x.d * y.n
                  IN  Fin(n \div Gcd(n, d), d \div Gcd(n, d))

Zero == Fin(0, 1)
One == Fin(1, 1)

(***************************************************************************)
(* Universe resolution (main, step 4).                                     *)
(***************************************************************************)
\* the short symbols a candidate record can carry; "" is coin_data.get('symbol', '')
\* of a record without the field
CmcSymbols == {"BTC", "btc", "ETH", ""}

\* str.upper()
upper(symbol) ==
    CASE symbol = "btc" -> "BTC"
      [] OTHER -> symbol

\* binance_symbol = symbol.upper() + "USDT"
BinanceSymbol(symbol) == upper(symbol) \o "USDT"

VenueSymbols == {"BTCUSDT", "ETHUSDT"}

\* the matching loop with the match put in front of the list
RECURSIVE MatchLoop_prepend(_, _, _, _, _)
MatchLoop_prepend(data, k, tradable, target, acc) ==
    IF k > Len(data) THEN acc
    ELSE LET binance_symbol == BinanceSymbol(data[k])
             acc2 == IF binance_symbol \in tradable
                     THEN <<binance_symbol>> \o acc ELSE acc
         IN  IF Len(acc2) = target THEN acc2
             ELSE MatchLoop_prepend(data, k + 1, tradable, target, acc2)

\* the matching loop without the break at the target length
RECURSIVE MatchLoop_nobreak(_, _, _, _, _)
MatchLoop_nobreak(data, k, tradable, target, acc) ==
    IF k > Len(data) THEN acc
    ELSE LET binance_symbol == BinanceSymbol(data[k])
             acc2 == IF binance_symbol \in tradable
                     THEN Append(acc, binance_symbol) ELSE acc
         IN  MatchLoop_nobreak(data, k + 1, tradable, target, acc2)

\* the matching loop of main, from candidate k on, with the list built so far
RECURSIVE MatchLoop(_, _, _, _, _)
MatchLoop(data, k, tradable, target, acc) ==
    IF k > Len(data) THEN acc
    ELSE LET binance_symbol == BinanceSymbol(data[k])
             acc2 == IF binance_symbol \in tradable
                     THEN Append(acc, binance_symbol) ELSE acc
         IN  IF Len(acc2) = target THEN acc2
             ELSE MatchLoop(data, k + 1, tradable, target, acc2)

ResolveUniverse(data, tradable, target) == MatchLoop(data, 1, tradable, target, <<>>)

(***************************************************************************)
(* Venue reads of the flow pipeline and the totals derived from them.      *)
(***************************************************************************)
\* api_get returned None
NoDepth == [ok |-> FALSE, bids |-> <<>>, asks |-> <<>>]
Depth(bids, asks) == [ok |-> TRUE, bids |-> bids, asks |-> asks]

\* the order-book snapshots the venue answers with: levels are <<price, quantity>>
DepthResponses ==
    { NoDepth,
      Depth(<<<<1, 2>>>>, <<<<1, 1>>>>),
      Depth(<<<<1, 1>>>>, <<<<1, 1>>, <<1, 1>>>>) }

NoTrades == [ok |-> FALSE, trades |-> <<>>]
Trades(trades) == [ok |-> TRUE, trades |-> trades]
Trade(p, q, m) == [has_p |-> TRUE, p |-> p, q |-> q, m |-> m]
\* a record without the 'p' key: trade['p'] raises KeyError
BadTrade == [has_p |-> FALSE, p |-> 0, q |-> 0, m |-> FALSE]

\* the recent-trades lists the venue answers with
TradesResponses ==
    { NoTrades,
      Trades(<<Trade(1, 1, FALSE), Trade(1, 2, TRUE)>>),
      Trades(<<Trade(2, 1, FALSE), Trade(1, 1, TRUE)>>),
      Trades(<<Trade(1, 1, FALSE), BadTrade>>) }

\* sum(float(p) * float(q) for p, q in levels)
RECURSIVE SumNotional(_)
SumNotional(levels) ==
    IF levels = <<>> THEN 0
    ELSE Head(levels)[1] * Head(levels)[2] + SumNotional(Tail(levels))

\* <<total_bids_value, total_asks_value>>
calculate_passive_order_value(response) ==
    IF ~response.ok THEN <<0, 0>>
    ELSE <<SumNotional(response.bids), SumNotional(response.asks)>>

\* the loop over the trades, from the totals so far
RECURSIVE TakerLoop(_, _, _)
TakerLoop(trades, buy, sell) ==
    IF trades = <<>> THEN <<buy, sell>>
    ELSE LET trade == Head(trades)
             notional_value == trade.p * trade.q
         IN  IF ~trade.m THEN TakerLoop(Tail(trades), buy + notional_value, sell)
             ELSE TakerLoop(Tail(trades), buy, sell + notional_value)

\* <<total_taker_buy_value, total_taker_sell_value>>
calculate_active_trade_value(response) ==
    IF ~response.ok \/ response.trades = <<>> THEN <<0, 0>>
    ELSE TakerLoop(response.trades, 0, 0)

\* an api_get that lets the exception of a failed request through
ActiveTradeRaises_on_failure(response) ==
    \/ ~response.ok
    \/ \E k \in 1..Len(response.trades) : ~response.trades[k].has_p

\* calculate_active_trade_value raises (KeyError) instead of returning
ActiveTradeRaises(response) ==
    /\ response.ok
    /\ \E k \in 1..Len(response.trades) : ~response.trades[k].has_p

\* the quotient of IEEE arithmetic, where 0 / 0 is nan
BsRatio_ieee(n, d) == IF d > 0 THEN Fin(n, d) ELSE IF n > 0 THEN Inf ELSE NaN

\* n / d if d > 0 else float('inf')
BsRatio(n, d) == IF d > 0 THEN Fin(n, d) ELSE Inf

NoResult == [coin |-> "", limitBuy |-> 0, limitSell |-> 0, marketBuy |-> 0,
             marketSell |-> 0, limit_bs_ratio |-> NaN, market_bs_ratio |-> NaN,
             limit_market_ratio |-> NaN, market_limit_ratio |-> NaN]

\* the dictionary returned by fetch_and_process_symbol; totals are integral here,
\* so int(round(v)) leaves them as they are; the two composite ratios are filled
\* in by display_trade_setups
fetch_and_process_symbol(symbol, depth, trades) ==
    LET limit == calculate_passive_order_value(depth)
        market == calculate_active_trade_value(trades)
    IN  [coin |-> symbol,
         limitBuy |-> limit[1], limitSell |-> limit[2],
         marketBuy |-> market[1], marketSell |-> market[2],
         limit_bs_ratio |-> BsRatio(limit[1], limit[2]),
         market_bs_ratio |-> BsRatio(market[1], market[2]),
         limit_market_ratio |-> NaN, market_limit_ratio |-> NaN]

(***************************************************************************)
(* Sorting and ranking.                                                    *)
(***************************************************************************)
\* coins_to_analyze.index(coin)
IndexOf(universe, coin) ==
    CHOOSE k \in 1..Len(universe) :
        universe[k] = coin /\ \A j \in 1..(k - 1) : universe[j] # coin

\* step 6 left out: the results stay in completion order
SortByRank_unsorted(results, universe) == results

\* list.sort is stable: the element at position k moves behind every element with
\* a smaller key and every earlier element with an equal key
\* all_coin_data.sort(key=lambda x: coins_to_analyze.index(x['coin']))
SortByRank(results, universe) ==
    LET key(k) == IndexOf(universe, results[k].coin)
        pos(k) == Cardinality({j \in 1..Len(results) :
                      key(j) < key(k) \/ (key(j) = key(k) /\ j < k)}) + 1
    IN  [p \in 1..Len(results) |->
            results[CHOOSE k \in 1..Len(results) : pos(k) = p]]

\* the first loop of display_trade_setups
Enrich(coin) ==
    [coin EXCEPT
        !.limit_market_ratio =
            IF FloatGt(coin.market_bs_ratio, Zero)
            THEN FloatDiv(coin.limit_bs_ratio, coin.market_bs_ratio) ELSE Inf,
        !.market_limit_ratio =
            IF FloatGt(coin.limit_bs_ratio, Zero)
            THEN FloatDiv(coin.market_bs_ratio, coin.limit_bs_ratio) ELSE Inf]

EnrichAll(results) == [k \in 1..Len(results) |-> Enrich(results[k])]

\* a short filter that looks at the passive ratio alone
IsShort_passive_only(c) == FloatGt(c.limit_bs_ratio, One)

IsShort(c) == FloatGt(c.limit_bs_ratio, One) /\ FloatLt(c.market_bs_ratio, One)
IsLong(c) == FloatLt(c.limit_bs_ratio, One) /\ FloatGt(c.market_bs_ratio, One)

\* list.sort(key=...) without reverse=True: ascending
SortDescending_ascending(list, keys) ==
    LET pos(k) == Cardinality({j \in 1..Len(list) :
                      FloatGt(keys[k], keys[j])
                      \/ (~FloatGt(keys[j], keys[k]) /\ j < k)}) + 1
    IN  [p \in 1..Len(list) |->
            list[CHOOSE k \in 1..Len(list) : pos(k) = p]]

\* an ascending sort followed by list.reverse(): equal keys change places
SortDescending_reversed(list, keys) ==
    LET pos(k) == Cardinality({j \in 1..Len(list) :
                      FloatGt(keys[j], keys[k])
                      \/ (~FloatGt(keys[k], keys[j]) /\ j > k)}) + 1
    IN  [p \in 1..Len(list) |->
            list[CHOOSE k \in 1..Len(list) : pos(k) = p]]

\* list.sort(key=..., reverse=True) on keys seq: descending and still stable
SortDescending(list, keys) ==
    LET pos(k) == Cardinality({j \in 1..Len(list) :
                      FloatGt(keys[j], keys[k])
                      \/ (~FloatGt(keys[k], keys[j]) /\ j < k)}) + 1
    IN  [p \in 1..Len(list) |->
            list[CHOOSE k \in 1..Len(list) : pos(k) = p]]

\* potential_shorts of display_trade_setups, from the enriched results
PotentialShorts(enriched) ==
    LET list == SelectSeq(enriched, IsShort)
    IN  SortDescending(list, [k \in 1..Len(list) |-> list[k].limit_market_ratio])

\* potential_longs of display_trade_setups, from the enriched results
PotentialLongs(enriched) ==
    LET list == SelectSeq(enriched, IsLong)
    IN  SortDescending(list, [k \in 1..Len(list) |-> list[k].market_limit_ratio])

(***************************************************************************)
(* Inputs of the flow pipeline.                                            *)
(***************************************************************************)
\* get_cmc_market_data returned None
NoCmc == [ok |-> FALSE, data |-> <<>>]
Cmc(data) == [ok |-> TRUE, data |-> data]

\* every answer of the candidate source up to MaxCandidates records
AllCmcData == {NoCmc} \cup {Cmc(d) : d \in SeqsUpTo(CmcSymbols, MaxCandidates)}
\* every answer of the venue catalog; the empty set is also the failed read
AllSymbolSets == SUBSET VenueSymbols

\* the answers followed through a whole scan
ScanCmcData ==
    { NoCmc, Cmc(<<>>), Cmc(<<"BTC", "", "ETH">>), Cmc(<<"BTC", "btc", "ETH">>) }
ScanSymbolSets == { {}, {"BTCUSDT", "ETHUSDT"} }

\* one side of an order book with the notional total v
LevelsOf(v) == IF v = 0 THEN <<>> ELSE <<<<1, v>>>>

\* an order book with the totals bids, asks
DepthOf(bids, asks) == Depth(LevelsOf(bids), LevelsOf(asks))

\* a recent-trades list with the taker totals buy, sell
TradesOf(buy, sell) ==
    Trades((IF buy = 0 THEN <<>> ELSE <<Trade(1, buy, FALSE)>>)
           \o (IF sell = 0 THEN <<>> ELSE <<Trade(1, sell, TRUE)>>))

\* the evidence followed through the ranking: every pair of totals up to
\* MaxTotal, and the totals 1000 / 500 and 100 / 300
RankingDepthResponses ==
    {DepthOf(b, a) : b \in 0..MaxTotal, a \in 0..MaxTotal} \cup {DepthOf(1000, 500)}
RankingTradesResponses ==
    {TradesOf(b, a) : b \in 0..MaxTotal, a \in 0..MaxTotal} \cup {TradesOf(100, 300)}

\* the two bulk answers of the ranking runs: two candidates, both tradable
RankingCmcData == { Cmc(<<"BTC", "ETH">>) }
RankingSymbolSets == { VenueSymbols }

(***************************************************************************)
(* The executor: work items are started in submission order by an idle     *)
(* worker thread, at most max_workers at a time.                           *)
(***************************************************************************)
Terminal == {"finished", "raised"}

TaskIds == 1..Len(tasks)
Queued == {i \in TaskIds : tasks[i].state = "queued"}
Done == {i \in TaskIds : tasks[i].state \in Terminal}
Running == TaskIds \ (Queued \cup Done)
Workers == 1..max_workers
\* a pool that starts a thread for every work item
Idle_always(w) == TRUE

Idle(w) == \A i \in Running : tasks[i].worker # w

\* the work item a free worker takes from the queue: the head of the queue;
\* the threads of the pool are interchangeable, the free one with the lowest
\* number is the one that takes it
CanStart(w, i) ==
    /\ i \in Queued
    /\ \A j \in Queued : i <= j
    /\ Idle(w)
    /\ \A v \in 1..(w - 1) : ~Idle(v)

FlowTask(symbol) ==
    [symbol |-> symbol, state |-> "queued", worker |-> 0,
     depth |-> NoDepth, trades |-> NoTrades, result |-> NoResult]

(***************************************************************************)
(* Flow pipeline: the main thread.                                         *)
(***************************************************************************)
\* step 3 without the check of the two answers
FetchSourcesFrom_nocheck(cmcAnswers, catalogAnswers) ==
    /\ program = "flow"
    /\ pc = "start"
    /\ \E c \in cmcAnswers, b \in catalogAnswers :
          /\ cmc_data' = c
          /\ binance_symbols_set' = b
          /\ pc' = "match"
    /\ UNCHANGED <<program, max_workers, tasks, FINAL_COIN_COUNT, coins_to_analyze,
                   all_coin_data, collected, count, potential_shorts,
                   potential_longs, candleVars>>

\* main, step 3: both sources are read; an empty answer ends the run
FetchSourcesFrom(cmcAnswers, catalogAnswers) ==
    /\ program = "flow"
    /\ pc = "start"
    /\ \E c \in cmcAnswers, b \in catalogAnswers :
          /\ cmc_data' = c
          /\ binance_symbols_set' = b
          /\ pc' = IF ~c.ok \/ c.data = <<>> \/ b = {} THEN "end" ELSE "match"
    /\ UNCHANGED <<program, max_workers, tasks, FINAL_COIN_COUNT, coins_to_analyze,
                   all_coin_data, collected, count, potential_shorts,
                   potential_longs, candleVars>>

FetchSources == FetchSourcesFrom(ScanCmcData, ScanSymbolSets)

\* main, step 4: the universe is built; an empty universe ends the run
MatchCoins ==
    /\ program = "flow"
    /\ pc = "match"
    /\ coins_to_analyze' =
          ResolveUniverse(cmc_data.data, binance_symbols_set, FINAL_COIN_COUNT)
    /\ pc' = IF coins_to_analyze' = <<>> THEN "end" ELSE "submit"
    /\ UNCHANGED <<program, max_workers, tasks, FINAL_COIN_COUNT, cmc_data,
                   binance_symbols_set, all_coin_data, collected, count,
                   potential_shorts, potential_longs, candleVars>>

\* main, step 5: executor.submit for the next symbol of the universe
SubmitFlow ==
    /\ program = "flow"
    /\ pc = "submit"
    /\ tasks' = Append(tasks, FlowTask(coins_to_analyze[Len(tasks) + 1]))
    /\ pc' = IF Len(tasks') = Len(coins_to_analyze) THEN "collect" ELSE "submit"
    /\ UNCHANGED <<program, max_workers, flowVars, candleVars>>

\* the loop without its try/except: the exception of a task leaves main
Collect_uncaught(f) ==
    /\ program = "flow"
    /\ pc = "collect"
    /\ f \in Done \ Range(collected)
    /\ collected' = Append(collected, f)
    /\ count' = count + 1
    /\ all_coin_data' = IF tasks[f].state = "finished"
                        THEN Append(all_coin_data, tasks[f].result)
                        ELSE all_coin_data
    /\ pc' = IF tasks[f].state = "raised" THEN "crashed" ELSE pc
    /\ UNCHANGED <<program, max_workers, tasks, FINAL_COIN_COUNT, cmc_data,
                   binance_symbols_set, coins_to_analyze, potential_shorts,
                   potential_longs, candleVars>>

\* the loop counting after future.result(): a raising task is not counted
Collect_count_after_result(f) ==
    /\ program = "flow"
    /\ pc = "collect"
    /\ f \in Done \ Range(collected)
    /\ collected' = Append(collected, f)
    /\ count' = IF tasks[f].state = "finished" THEN count + 1 ELSE count
    /\ all_coin_data' = IF tasks[f].state = "finished"
                        THEN Append(all_coin_data, tasks[f].result)
                        ELSE all_coin_data
    /\ UNCHANGED <<program, pc, max_workers, tasks, FINAL_COIN_COUNT, cmc_data,
                   binance_symbols_set, coins_to_analyze, potential_shorts,
                   potential_longs, candleVars>>

\* one round of the as_completed loop: a completed future is yielded, its result
\* is appended or its exception is logged, the progress line is written
Collect(f) ==
    /\ program = "flow"
    /\ pc = "collect"
    /\ f \in Done \ Range(collected)
    /\ collected' = Append(collected, f)
    /\ count' = count + 1
    /\ all_coin_data' = IF tasks[f].state = "finished"
                        THEN Append(all_coin_data, tasks[f].result)
                        ELSE all_coin_data
    /\ UNCHANGED <<program, pc, max_workers, tasks, FINAL_COIN_COUNT, cmc_data,
                   binance_symbols_set, coins_to_analyze, potential_shorts,
                   potential_longs, candleVars>>

\* the loop and the with block are left, step 6 sorts the results by rank
SortResults ==
    /\ program = "flow"
    /\ pc = "collect"
    /\ Len(collected) = Len(coins_to_analyze)
    /\ all_coin_data' = SortByRank(all_coin_data, coins_to_analyze)
    /\ pc' = "report"
    /\ UNCHANGED <<program, max_workers, tasks, FINAL_COIN_COUNT, cmc_data,
                   binance_symbols_set, coins_to_analyze, collected, count,
                   potential_shorts, potential_longs, candleVars>>

\* step 7: display_trade_setups enriches the results and builds the two lists
display_trade_setups ==
    /\ program = "flow"
    /\ pc = "report"
    /\ all_coin_data' = EnrichAll(all_coin_data)
    /\ potential_shorts' = PotentialShorts(all_coin_data')
    /\ potential_longs' = PotentialLongs(all_coin_data')
    /\ pc' = "end"
    /\ UNCHANGED <<program, max_workers, tasks, FINAL_COIN_COUNT, cmc_data,
                   binance_symbols_set, coins_to_analyze, collected, count,
                   candleVars>>

(***************************************************************************)
(* Flow pipeline: the task fetch_and_process_symbol on a worker.           *)
(***************************************************************************)
\* a worker takes the work item and issues the order-book read
StartFlow(w, i) ==
    /\ program = "flow"
    /\ CanStart(w, i)
    /\ tasks' = [tasks EXCEPT ![i].state = "depth", ![i].worker = w]
    /\ UNCHANGED <<program, pc, max_workers, flowVars, candleVars>>

\* a task that issues the recent-trades read as soon as the book is there
DepthReturnsFrom_nosleep(i, answers) ==
    /\ program = "flow"
    /\ i \in TaskIds
    /\ tasks[i].state = "depth"
    /\ \E r \in answers :
          tasks' = [tasks EXCEPT ![i].state = "trades", ![i].depth = r]
    /\ UNCHANGED <<program, pc, max_workers, flowVars, candleVars>>

\* the order-book read returns (None on a failed request); the task sleeps
DepthReturnsFrom(i, answers) ==
    /\ program = "flow"
    /\ i \in TaskIds
    /\ tasks[i].state = "depth"
    /\ \E r \in answers :
          tasks' = [tasks EXCEPT ![i].state = "sleep", ![i].depth = r]
    /\ UNCHANGED <<program, pc, max_workers, flowVars, candleVars>>

DepthReturns(i) == DepthReturnsFrom(i, DepthResponses)

\* time.sleep(0.2) is over; the recent-trades read is issued
Throttle(i) ==
    /\ program = "flow"
    /\ i \in TaskIds
    /\ tasks[i].state = "sleep"
    /\ tasks' = [tasks EXCEPT ![i].state = "trades"]
    /\ UNCHANGED <<program, pc, max_workers, flowVars, candleVars>>

\* the recent-trades read returns; the task returns its dictionary or raises
TradesReturnFrom(i, answers) ==
    /\ program = "flow"
    /\ i \in TaskIds
    /\ tasks[i].state = "trades"
    /\ \E r \in answers :
          tasks' = [tasks EXCEPT
              ![i].trades = r,
              ![i].state = IF ActiveTradeRaises(r) THEN "raised" ELSE "finished",
              ![i].result = IF ActiveTradeRaises(r) THEN NoResult
                            ELSE fetch_and_process_symbol(tasks[i].symbol,
                                                          tasks[i].depth, r)]
    /\ UNCHANGED <<program, pc, max_workers, flowVars, candleVars>>

TradesReturn(i) == TradesReturnFrom(i, TradesResponses)

FlowNext ==
    \/ FetchSources
    \/ MatchCoins
    \/ SubmitFlow
    \/ \E f \in TaskIds : Collect(f)
    \/ SortResults
    \/ display_trade_setups
    \/ \E w \in Workers, i \in TaskIds : StartFlow(w, i)
    \/ \E i \in TaskIds : DepthReturns(i)
    \/ \E i \in TaskIds : Throttle(i)
    \/ \E i \in TaskIds : TradesReturn(i)

InitFlow ==
    /\ program = "flow"
    /\ pc = "start"
    /\ max_workers \in 1..MaxWorkers
    /\ tasks = <<>>
    /\ FINAL_COIN_COUNT \in 1..MaxTarget
    /\ cmc_data = NoCmc
    /\ binance_symbols_set = {}
    /\ coins_to_analyze = <<>>
    /\ all_coin_data = <<>>
    /\ collected = <<>>
    /\ count = 0
    /\ potential_shorts = <<>>
    /\ potential_longs = <<>>
    /\ symbols = <<>>
    /\ processed_count = 0
    /\ lock = 0
    /\ stdout = <<>>
    /\ cycle = 0

(***************************************************************************)
(* Candle scanner: inputs and the pattern rules.                           *)
(***************************************************************************)
\* the venue catalog lists each instrument once
Catalog == <<"BTCUSDT", "ETHUSDT", "SOLUSDT", "XRPUSDT", "ADAUSDT">>

\* the answers of get_futures_symbols: [] on a failed read
SymbolLists == {SubSeq(Catalog, 1, n) : n \in 0..MaxSymbols}

\* a candle after klines[k][1:5]; fmt tells what float() does with its fields:
\* "num" converts, "text" raises ValueError, "null" raises TypeError
Candle(o, h, l, c) == [o |-> o, h |-> h, l |-> l, c |-> c, fmt |-> "num"]

\* get_candle_data returned None
NoKlines == [ok |-> FALSE, candles |-> <<>>]
Klines(candles) == [ok |-> TRUE, candles |-> candles]

\* the candle lists the venue answers with, oldest first
KlinesResponses ==
    { NoKlines,
      Klines(<<Candle(12, 15, 11, 11), Candle(11, 11, 9, 9)>>),
      Klines(<<Candle(9, 10, 8, 10), Candle(10, 13, 10, 12),
               Candle(12, 15, 11, 11), Candle(11, 11, 9, 9)>>),
      Klines(<<Candle(10, 13, 10, 12), Candle(12, 15, 11, 11),
               Candle(9, 11, 9, 10)>>),
      Klines(<<Candle(10, 13, 10, 12), Candle(12, 15, 11, 11),
               [o |-> 0, h |-> 0, l |-> 0, c |-> 0, fmt |-> "null"]>>) }

Max(a, b) == IF a > b THEN a ELSE b
Abs(a) == IF a < 0 THEN -a ELSE a

\* a check that also skips a list of exactly three candles
TooFewCandles_three_skipped(klines) == ~klines.ok \/ Len(klines.candles) <= 3

\* klines is None, empty or shorter than three candles: the symbol is skipped
TooFewCandles(klines) == ~klines.ok \/ Len(klines.candles) < 3

\* a window taken from the front of the list: klines[0], klines[1], klines[2]
Window_oldest(klines) ==
    [left |-> klines.candles[1], mid |-> klines.candles[2],
     curr |-> klines.candles[3]]

\* the three newest candles: klines[-3], klines[-2], klines[-1]
Window(klines) ==
    LET n == Len(klines.candles)
    IN  [left |-> klines.candles[n - 2], mid |-> klines.candles[n - 1],
         curr |-> klines.candles[n]]

WindowFormats(klines) ==
    {Window(klines).left.fmt, Window(klines).mid.fmt, Window(klines).curr.fmt}

\* the seven rules of check_conditions on a window: [rule1, ..., rule7]
Rules(win) ==
    LET rule1 == win.curr.c < win.curr.o
        rule2 == win.left.c > win.left.o
        rule3 == win.left.h < win.mid.h
        mid_candle_body_top == Max(win.mid.o, win.mid.c)
        rule4 == mid_candle_body_top < win.left.h
        rule5 == win.left.o < win.mid.l
        rule6 == win.curr.h < win.mid.h
        mid_candle_body_size == Abs(win.mid.o - win.mid.c)
        left_candle_body_size == Abs(win.left.o - win.left.c)
        rule7 == mid_candle_body_size < left_candle_body_size
    IN  <<rule1, rule2, rule3, rule4, rule5, rule6, rule7>>

\* all() over a list that lacks rule7
AllRules_without_rule7(win) == \A k \in 1..6 : Rules(win)[k]

\* all([rule1, rule2, rule3, rule4, rule5, rule6, rule7])
AllRules(win) == \A k \in 1..7 : Rules(win)[k]

\* a window that meets the seven rules, and the candle lists that differ from
\* it in one price by at most MaxDelta
PatternWindow ==
    [left |-> Candle(10, 13, 10, 12), mid |-> Candle(12, 15, 11, 11),
     curr |-> Candle(11, 11, 9, 9)]
PatternWindows ==
    {[PatternWindow EXCEPT ![c][f] = @ + d] :
        c \in {"left", "mid", "curr"}, f \in {"o", "h", "l", "c"},
        d \in (0 - MaxDelta)..MaxDelta}
\* limit=4: an older candle may precede the three of the window
OldestCandles == { Candle(9, 10, 8, 10), Candle(20, 30, 5, 6) }
PatternResponses ==
    {Klines(<<win.left, win.mid, win.curr>>) : win \in PatternWindows}
    \cup {Klines(<<old, win.left, win.mid, win.curr>>) :
             old \in OldestCandles, win \in PatternWindows}
PatternSymbolLists == { <<"BTCUSDT">> }

\* what check_conditions does once the candles are there:
\* "skip" (return), "raise", "alert" or "none" (no pattern)
Outcome(klines) ==
    CASE TooFewCandles(klines) -> "skip"
      [] "text" \in WindowFormats(klines) -> "skip"
      [] "null" \in WindowFormats(klines) -> "raise"
      [] AllRules(Window(klines)) -> "alert"
      [] OTHER -> "none"

\* the writes of one alert: the line clear, Coin, Price, Time, URL, blank line
AlertLines == 6

CandleTask(symbol) ==
    [symbol |-> symbol, state |-> "queued", worker |-> 0, seen |-> 0,
     klines |-> NoKlines, line |-> 0]

(***************************************************************************)
(* Candle scanner: the main thread.                                        *)
(***************************************************************************)
\* a loop that does not reset the counter
StartCycleFrom_counter_kept(answers) ==
    /\ program = "candle"
    /\ pc = "start"
    /\ cycle < MaxCycles
    /\ cycle' = cycle + 1
    /\ tasks' = <<>>
    /\ stdout' = <<>>
    /\ \E answer \in answers :
          /\ symbols' = answer
          /\ pc' = IF answer = <<>> THEN "end" ELSE "submit"
    /\ UNCHANGED <<program, max_workers, flowVars, lock, processed_count>>

\* top of the while loop: the counter is reset and the symbols are fetched;
\* without symbols main returns.  stdout keeps the lines of the current cycle.
StartCycleFrom(answers) ==
    /\ program = "candle"
    /\ pc = "start"
    /\ cycle < MaxCycles
    /\ cycle' = cycle + 1
    /\ processed_count' = 0
    /\ tasks' = <<>>
    /\ stdout' = <<>>
    /\ \E answer \in answers :
          /\ symbols' = answer
          /\ pc' = IF answer = <<>> THEN "end" ELSE "submit"
    /\ UNCHANGED <<program, max_workers, flowVars, lock>>

StartCycle == StartCycleFrom(SymbolLists)

\* a map that hands the first symbol to every call
SubmitCandle_first ==
    /\ program = "candle"
    /\ pc = "submit"
    /\ tasks' = Append(tasks, CandleTask(symbols[1]))
    /\ pc' = IF Len(tasks') = Len(symbols) THEN "join" ELSE "submit"
    /\ UNCHANGED <<program, max_workers, flowVars, candleVars>>

\* executor.map submits check_conditions for the next symbol
SubmitCandle ==
    /\ program = "candle"
    /\ pc = "submit"
    /\ tasks' = Append(tasks, CandleTask(symbols[Len(tasks) + 1]))
    /\ pc' = IF Len(tasks') = Len(symbols) THEN "join" ELSE "submit"
    /\ UNCHANGED <<program, max_workers, flowVars, candleVars>>

\* the with block is left once every work item is over; the status line is
\* cleared and the report printed
FinishScan ==
    /\ program = "candle"
    /\ pc = "join"
    /\ Done = TaskIds
    /\ stdout' = Append(stdout, [who |-> "main", line |-> 0, price |-> 0])
    /\ pc' = "wait"
    /\ UNCHANGED <<program, max_workers, tasks, flowVars, symbols,
                   processed_count, lock, cycle>>

\* a scanner that returns after the countdown
countdown_timer_then_return ==
    /\ program = "candle"
    /\ pc = "wait"
    /\ pc' = "end"
    /\ UNCHANGED <<program, max_workers, tasks, flowVars, candleVars>>

\* countdown_timer returns and the loop starts over
countdown_timer ==
    /\ program = "candle"
    /\ pc = "wait"
    /\ pc' = "start"
    /\ UNCHANGED <<program, max_workers, tasks, flowVars, candleVars>>

(***************************************************************************)
(* Candle scanner: the task check_conditions on a worker.                  *)
(***************************************************************************)
\* a worker takes the work item and reaches the first with lock
StartCandle(w, i) ==
    /\ program = "candle"
    /\ CanStart(w, i)
    /\ tasks' = [tasks EXCEPT ![i].state = "enter_count", ![i].worker = w]
    /\ UNCHANGED <<program, pc, max_workers, flowVars, candleVars>>

\* a with block that does not wait for the lock
LockFree_ignored == TRUE

\* the lock is free
LockFree == lock = 0

\* with lock: the lock is acquired and processed_count is loaded
EnterCount(i) ==
    /\ program = "candle"
    /\ i \in TaskIds
    /\ tasks[i].state = "enter_count"
    /\ LockFree
    /\ lock' = i
    /\ tasks' = [tasks EXCEPT ![i].state = "count", ![i].seen = processed_count]
    /\ UNCHANGED <<program, pc, max_workers, flowVars, symbols, processed_count,
                   stdout, cycle>>

\* a with block that is left without releasing the lock
IncrementCount_lock_kept(i) ==
    /\ program = "candle"
    /\ i \in TaskIds
    /\ tasks[i].state = "count"
    /\ processed_count' = tasks[i].seen + 1
    /\ tasks' = [tasks EXCEPT ![i].state = "fetch"]
    /\ UNCHANGED <<program, pc, max_workers, flowVars, symbols, stdout, cycle, lock>>

\* processed_count is stored, the lock released; the task sleeps and issues
\* the candle read
IncrementCount(i) ==
    /\ program = "candle"
    /\ i \in TaskIds
    /\ tasks[i].state = "count"
    /\ processed_count' = tasks[i].seen + 1
    /\ lock' = IF lock = i THEN 0 ELSE lock
    /\ tasks' = [tasks EXCEPT ![i].state = "fetch"]
    /\ UNCHANGED <<program, pc, max_workers, flowVars, symbols, stdout, cycle>>

\* the candle read returns and the rules are evaluated
KlinesReturnFrom(i, answers) ==
    /\ program = "candle"
    /\ i \in TaskIds
    /\ tasks[i].state = "fetch"
    /\ \E r \in answers :
          tasks' = [tasks EXCEPT
              ![i].klines = r,
              ![i].state = CASE Outcome(r) = "alert" -> "enter_alert"
                             [] Outcome(r) = "raise" -> "raised"
                             [] OTHER -> "finished"]
    /\ UNCHANGED <<program, pc, max_workers, flowVars, candleVars>>

KlinesReturn(i) == KlinesReturnFrom(i, KlinesResponses)

\* with lock of the alert: the lock is acquired
EnterAlert(i) ==
    /\ program = "candle"
    /\ i \in TaskIds
    /\ tasks[i].state = "enter_alert"
    /\ LockFree
    /\ lock' = i
    /\ tasks' = [tasks EXCEPT ![i].state = "alert"]
    /\ UNCHANGED <<program, pc, max_workers, flowVars, symbols, processed_count,
                   stdout, cycle>>

\* the next write of the alert; the lock is released after the last one
WriteAlert(i) ==
    /\ program = "candle"
    /\ i \in TaskIds
    /\ tasks[i].state = "alert"
    /\ stdout' = Append(stdout, [who |-> tasks[i].symbol, line |-> tasks[i].line,
                                 price |-> Window(tasks[i].klines).curr.c])
    /\ IF tasks[i].line + 1 = AlertLines
       THEN /\ tasks' = [tasks EXCEPT ![i].state = "finished", ![i].line = AlertLines]
            /\ lock' = IF lock = i THEN 0 ELSE lock
       ELSE /\ tasks' = [tasks EXCEPT ![i].line = tasks[i].line + 1]
            /\ lock' = lock
    /\ UNCHANGED <<program, pc, max_workers, flowVars, symbols, processed_count,
                   cycle>>

CandleNext ==
    \/ StartCycle
    \/ SubmitCandle
    \/ FinishScan
    \/ countdown_timer
    \/ \E w \in Workers, i \in TaskIds : StartCandle(w, i)
    \/ \E i \in TaskIds : EnterCount(i)
    \/ \E i \in TaskIds : IncrementCount(i)
    \/ \E i \in TaskIds : KlinesReturn(i)
    \/ \E i \in TaskIds : EnterAlert(i)
    \/ \E i \in TaskIds : WriteAlert(i)

InitCandle ==
    /\ program = "candle"
    /\ pc = "start"
    /\ max_workers \in 1..MaxWorkers
    /\ tasks = <<>>
    /\ FINAL_COIN_COUNT = 0
    /\ cmc_data = NoCmc
    /\ binance_symbols_set = {}
    /\ coins_to_analyze = <<>>
    /\ all_coin_data = <<>>
    /\ collected = <<>>
    /\ count = 0
    /\ potential_shorts = <<>>
    /\ potential_longs = <<>>
    /\ symbols = <<>>
    /\ processed_count = 0
    /\ lock = 0
    /\ stdout = <<>>
    /\ cycle = 0

Init == InitFlow \/ InitCandle
Next == FlowNext \/ CandleNext
Spec == Init /\ [][Next]_vars

\* the resolver alone, on every candidate list and membership set of the bounds
FetchAnySources == FetchSourcesFrom(AllCmcData, AllSymbolSets)
NextResolver == FetchAnySources \/ MatchCoins
SpecResolver == InitFlow /\ [][NextResolver]_vars

\* the flow pipeline with one worker, as the scripts configure it, on a universe
\* of two symbols and every evidence of RankingDepthResponses and
\* RankingTradesResponses
FetchRankingSources == FetchSourcesFrom(RankingCmcData, RankingSymbolSets)
InitRanking == InitFlow /\ max_workers = 1
NextRanking ==
    \/ FetchRankingSources
    \/ MatchCoins
    \/ SubmitFlow
    \/ \E f \in TaskIds : Collect(f)
    \/ SortResults
    \/ display_trade_setups
    \/ \E w \in Workers, i \in TaskIds : StartFlow(w, i)
    \/ \E i \in TaskIds : DepthReturnsFrom(i, RankingDepthResponses)
    \/ \E i \in TaskIds : Throttle(i)
    \/ \E i \in TaskIds : TradesReturnFrom(i, RankingTradesResponses)
SpecRanking == InitRanking /\ [][NextRanking]_vars

\* the candle scanner on one symbol per cycle and every candle list of
\* PatternResponses
StartPatternCycle == StartCycleFrom(PatternSymbolLists)
NextPattern ==
    \/ StartPatternCycle
    \/ SubmitCandle
    \/ FinishScan
    \/ countdown_timer
    \/ \E w \in Workers, i \in TaskIds : StartCandle(w, i)
    \/ \E i \in TaskIds : EnterCount(i)
    \/ \E i \in TaskIds : IncrementCount(i)
    \/ \E i \in TaskIds : KlinesReturnFrom(i, PatternResponses)
    \/ \E i \in TaskIds : EnterAlert(i)
    \/ \E i \in TaskIds : WriteAlert(i)
SpecPattern == InitCandle /\ [][NextPattern]_vars

\* the candle scanner on the symbol lists of the bounds, with reads that fail,
\* return no candle, two candles, or the three candles of PatternWindow
CycleResponses ==
    { NoKlines,
      Klines(<<>>),
      Klines(<<PatternWindow.mid, PatternWindow.curr>>),
      Klines(<<PatternWindow.left, PatternWindow.mid, PatternWindow.curr>>) }
NextCycle ==
    \/ StartCycle
    \/ SubmitCandle
    \/ FinishScan
    \/ countdown_timer
    \/ \E w \in Workers, i \in TaskIds : StartCandle(w, i)
    \/ \E i \in TaskIds : EnterCount(i)
    \/ \E i \in TaskIds : IncrementCount(i)
    \/ \E i \in TaskIds : KlinesReturnFrom(i, CycleResponses)
    \/ \E i \in TaskIds : EnterAlert(i)
    \/ \E i \in TaskIds : WriteAlert(i)
SpecCycle == InitCandle /\ [][NextCycle]_vars

\* both programs on small inputs, every thread scheduled again and again and
\* every read returning (requests.get has timeout=10): the flow pipeline on a
\* universe of up to two symbols, the candle scanner on the symbol lists of the
\* bounds; reads fail, succeed, or make the task raise
LiveDepthResponses == { NoDepth, DepthOf(1, 1) }
LiveTradesResponses == { NoTrades, TradesOf(1, 1), Trades(<<BadTrade>>) }
LiveKlinesResponses ==
    { NoKlines,
      Klines(<<PatternWindow.left, PatternWindow.mid, PatternWindow.curr>>),
      Klines(<<PatternWindow.left, PatternWindow.mid,
               [o |-> 0, h |-> 0, l |-> 0, c |-> 0, fmt |-> "null"]>>) }
NextLive ==
    \/ FetchRankingSources
    \/ MatchCoins
    \/ SubmitFlow
    \/ \E f \in TaskIds : Collect(f)
    \/ SortResults
    \/ display_trade_setups
    \/ \E w \in Workers, i \in TaskIds : StartFlow(w, i)
    \/ \E i \in TaskIds : DepthReturnsFrom(i, LiveDepthResponses)
    \/ \E i \in TaskIds : Throttle(i)
    \/ \E i \in TaskIds : TradesReturnFrom(i, LiveTradesResponses)
    \/ StartCycle
    \/ SubmitCandle
    \/ FinishScan
    \/ countdown_timer
    \/ \E w \in Workers, i \in TaskIds : StartCandle(w, i)
    \/ \E i \in TaskIds : EnterCount(i)
    \/ \E i \in TaskIds : IncrementCount(i)
    \/ \E i \in TaskIds : KlinesReturnFrom(i, LiveKlinesResponses)
    \/ \E i \in TaskIds : EnterAlert(i)
    \/ \E i \in TaskIds : WriteAlert(i)
FairSpec == Init /\ [][NextLive]_vars /\ WF_vars(NextLive)

\* Ctrl-C while the scanner runs: main has no handler, so KeyboardInterrupt is
\* raised in the main thread wherever it is (the symbol read, executor.map, the
\* join of the with block, time.sleep of the countdown) and main is left.  The
\* workers are not interrupted: they finish the work items already queued.
KeyboardInterrupt ==
    /\ program = "candle"
    /\ pc \in {"start", "submit", "join", "wait"}
    /\ pc' = "interrupted"
    /\ UNCHANGED <<program, max_workers, tasks, flowVars, candleVars>>

\* the candle scanner with a cancellation request at any moment
NextCancel == CandleNext \/ KeyboardInterrupt
SpecCancel == InitCandle /\ [][NextCancel]_vars

(***************************************************************************)
(* Properties.                                                             *)
(***************************************************************************)
\* the results of the tasks that returned, from task k on, in submission order:
\* what one worker with in-order completion collects
RECURSIVE ReturnedFrom(_)
ReturnedFrom(k) ==
    IF k > Len(tasks) THEN <<>>
    ELSE (IF tasks[k].state = "finished" THEN <<tasks[k].result>> ELSE <<>>)
         \o ReturnedFrom(k + 1)

\* the venue gave the same evidence to every task of one symbol
FixedEvidence ==
    \A i, j \in TaskIds :
        tasks[i].symbol = tasks[j].symbol
            => tasks[i].depth = tasks[j].depth /\ tasks[i].trades = tasks[j].trades

Coins(results) == [k \in 1..Len(results) |-> results[k].coin]

\* C1: with the same evidence for a symbol, the ranked short and long lists at
\* the end of a run are the lists of the serial in-order run, whatever the
\* worker count and the order in which the futures completed
C1_RankedOutputIndependentOfCompletion ==
    (program = "flow" /\ pc = "end" /\ tasks # <<>> /\ FixedEvidence)
        => /\ potential_shorts = PotentialShorts(EnrichAll(ReturnedFrom(1)))
           /\ potential_longs = PotentialLongs(EnrichAll(ReturnedFrom(1)))

\* two workers, the second future collected first, two shorts with equal key
C1_Witness ==
    /\ program = "flow" /\ pc = "end" /\ FixedEvidence
    /\ max_workers = 2
    /\ collected = <<2, 1>>
    /\ Len(potential_shorts) = 2
    /\ potential_shorts[1].coin # potential_shorts[2].coin
    /\ potential_shorts[1].limit_market_ratio = potential_shorts[2].limit_market_ratio

\* the tasks of a symbol, and whether one of them raised
TasksOf(symbol) == {i \in TaskIds : tasks[i].symbol = symbol}

\* C2: when the results are handed to the ranking they are in rank order, hold
\* exactly one result for each universe symbol whose task did not raise and
\* none for a symbol outside the universe
C2_RankOrderOneResultPerSymbol ==
    (program = "flow" /\ pc = "report")
        => /\ \A k \in 1..(Len(all_coin_data) - 1) :
                  IndexOf(coins_to_analyze, all_coin_data[k].coin)
                      <= IndexOf(coins_to_analyze, all_coin_data[k + 1].coin)
           /\ \A symbol \in Range(coins_to_analyze) :
                  (\A i \in TasksOf(symbol) : tasks[i].state = "finished")
                      => Cardinality({k \in 1..Len(all_coin_data) :
                                         all_coin_data[k].coin = symbol}) = 1
           /\ \A k \in 1..Len(all_coin_data) :
                  all_coin_data[k].coin \in Range(coins_to_analyze)

Raised == {i \in TaskIds : tasks[i].state = "raised"}

\* the main thread is at its ranking / reporting stage
AtReport ==
    \/ program = "flow" /\ pc = "report"
    \/ program = "candle" /\ pc = "wait"

\* the main thread is dispatching or waiting for the tasks of a scan
Scanning == pc \in {"submit", "collect", "join"}

\* the universe of the running scan
Universe == IF program = "flow" THEN coins_to_analyze ELSE symbols

\* C3: a scan in which a task has raised is never stuck and is left only for
\* the ranking / reporting stage, and at that stage every symbol of the
\* universe has been dispatched and its task has run to its end
C3_FailingTaskDoesNotAbort ==
    /\ [](Scanning /\ Raised # {} => ENABLED Next)
    /\ [][Scanning /\ Raised # {} /\ ~Scanning' => AtReport']_vars
    /\ [](AtReport => Len(tasks) = Len(Universe) /\ Done = TaskIds)

\* the report stage of a scan whose first task raised and whose last task,
\* started later by the same single worker, returned
C3_Witness ==
    /\ AtReport
    /\ max_workers = 1
    /\ Len(tasks) > 1
    /\ tasks[1].state = "raised"
    /\ tasks[Len(tasks)].state = "finished"

\* one of the reads of task i failed
ReadFailed(i) ==
    /\ tasks[i].state \in Terminal
    /\ ~tasks[i].depth.ok \/ ~tasks[i].trades.ok

Ranked == Range(Coins(potential_shorts)) \cup Range(Coins(potential_longs))

\* C4: a symbol with a failed order-book or recent-trades read has a failure
\* outcome and is in neither ranked list
C4_FailedReadNeverRanked ==
    (program = "flow" /\ pc = "end")
        => \A i \in TaskIds :
               ReadFailed(i) => tasks[i].state = "raised"
                                /\ tasks[i].symbol \notin Ranked

\* task i is inside a with lock block
InSection(i) == tasks[i].state \in {"count", "alert"}

\* no worker holds the lock and the lines of an alert follow one another
MutualExclusion ==
    /\ \A i, j \in TaskIds : InSection(i) /\ InSection(j) => i = j
    /\ \A i \in TaskIds : InSection(i) => lock = i
    /\ \A p \in 1..Len(stdout) :
           stdout[p].line > 0
               => /\ p > 1
                  /\ stdout[p - 1].who = stdout[p].who
                  /\ stdout[p - 1].line = stdout[p].line - 1

\* the main thread touches the counter and the stream with no task under way
MainAlone == Done = TaskIds /\ pc \in {"start", "join"}

\* C5: in the candle scanner workers change the counter and write alerts only
\* while holding the lock, never two at a time, alert lines are not
\* interleaved, and the main thread's unguarded accesses happen with no
\* worker running
C5_LockGuardsCounterAndOutput ==
    /\ [](program = "candle" => MutualExclusion)
    /\ [][(program = "candle" /\ processed_count' # processed_count)
              => \/ MainAlone
                 \/ lock \in TaskIds /\ tasks[lock].state = "count"]_vars
    /\ [][(program = "candle" /\ stdout' # stdout)
              => \/ MainAlone
                 \/ lock \in TaskIds /\ tasks[lock].state = "alert"]_vars

\* a worker in the middle of its alert while another waits for the lock to
\* write its own
C5_Witness ==
    /\ program = "candle"
    /\ \E i, j \in TaskIds :
          /\ tasks[i].state = "alert" /\ tasks[i].line = 3
          /\ tasks[j].state = "enter_alert"
          /\ tasks[i].worker # tasks[j].worker

\* the tasks that have passed their increment
Counted == {i \in TaskIds : tasks[i].state \notin {"queued", "enter_count", "count"}}

\* C6: the progress counter goes up once per task, whatever the task's
\* outcome: it never exceeds the number of symbols and equals it when the
\* scan is over
C6_CounterOncePerTask ==
    /\ program = "candle"
          => /\ processed_count = Cardinality(Counted)
             /\ processed_count <= Len(symbols)
             /\ pc = "wait" => processed_count = Len(symbols)
    /\ program = "flow"
          => /\ count = Len(collected)
             /\ count <= Len(coins_to_analyze)
             /\ pc \in {"report", "end"} => count = Len(coins_to_analyze)

\* a finished candle scan with a task that raised and a task that skipped
C6_Witness ==
    /\ program = "candle" /\ pc = "wait"
    /\ processed_count = 2
    /\ \E i, j \in TaskIds :
          /\ tasks[i].state = "raised"
          /\ tasks[j].state = "finished" /\ Outcome(tasks[j].klines) = "skip"

\* the venue reads in flight
ReadsInFlight == {i \in TaskIds : tasks[i].state \in {"depth", "trades", "fetch"}}

\* C7: never more than max_workers tasks (and venue reads) under way; with one
\* worker a task is under way only when all earlier ones are over
C7_AtMostWTasksAtOnce ==
    /\ Cardinality(Running) <= max_workers
    /\ Cardinality(ReadsInFlight) <= max_workers
    /\ max_workers = 1 => \A i \in Running : \A j \in 1..(i - 1) : j \in Done

\* every worker busy with a read while a work item waits in the queue
C7_Witness ==
    /\ Cardinality(ReadsInFlight) = max_workers
    /\ Queued # {}

\* the alerts of a symbol in the output of the cycle
AlertsOf(symbol) == {p \in 1..Len(stdout) : stdout[p].who = symbol /\ stdout[p].line = 1}

\* C8: in a candle cycle the k-th task is the task of the k-th symbol and no
\* symbol has two tasks, a started task keeps its worker until it is over, and
\* no symbol gets more than one alert
C8_OneTaskOneWorkerOneAlert ==
    /\ [](program = "candle"
            => /\ Len(tasks) <= Len(symbols)
               /\ \A i \in TaskIds : tasks[i].symbol = symbols[i]
               /\ \A i, j \in TaskIds : tasks[i].symbol = tasks[j].symbol => i = j
               /\ pc \in {"join", "wait"} => Len(tasks) = Len(symbols)
               /\ \A w \in Workers :
                      Cardinality({i \in Running : tasks[i].worker = w}) <= 1
               /\ \A i \in TaskIds : Cardinality(AlertsOf(tasks[i].symbol)) <= 1)
    /\ [][program = "candle"
            => \A i \in TaskIds :
                   (tasks[i].state # "queued" /\ i \in DOMAIN tasks' /\ cycle' = cycle)
                       => /\ tasks'[i].worker = tasks[i].worker
                          /\ tasks'[i].symbol = tasks[i].symbol
                          /\ tasks'[i].state # "queued"]_vars

\* a finished cycle in which two workers each wrote the alert of one symbol
C8_Witness ==
    /\ program = "candle" /\ pc = "wait"
    /\ \E i, j \in TaskIds :
          /\ tasks[i].worker # tasks[j].worker
          /\ Cardinality(AlertsOf(tasks[i].symbol)) = 1
          /\ Cardinality(AlertsOf(tasks[j].symbol)) = 1

\* the candidate list mapped to venue identifiers
Mapped(data) == [k \in 1..Len(data) |-> BinanceSymbol(data[k])]

\* sub is seq with some elements left out
RECURSIVE IsSubsequence(_, _)
IsSubsequence(sub, seq) ==
    IF sub = <<>> THEN TRUE
    ELSE IF seq = <<>> THEN FALSE
    ELSE IF Head(sub) = Head(seq) THEN IsSubsequence(Tail(sub), Tail(seq))
    ELSE IsSubsequence(sub, Tail(seq))

\* C9: the universe is a subsequence of the candidate list mapped to venue
\* identifiers and every symbol of it is tradable on the venue
C9_UniverseIsSubsequence ==
    /\ IsSubsequence(coins_to_analyze, Mapped(cmc_data.data))
    /\ Range(coins_to_analyze) \subseteq binance_symbols_set

\* a universe of two different symbols picked around a candidate that is not
\* tradable
C9_Witness ==
    /\ pc = "submit"
    /\ Len(cmc_data.data) = 3
    /\ BinanceSymbol(cmc_data.data[2]) \notin binance_symbols_set
    /\ Len(coins_to_analyze) = 2
    /\ coins_to_analyze[1] # coins_to_analyze[2]

\* the positions of the candidates that are tradable on the venue
Matches ==
    {k \in 1..Len(cmc_data.data) :
        BinanceSymbol(cmc_data.data[k]) \in binance_symbols_set}

IsTradable(symbol) == symbol \in binance_symbols_set

\* C10: once resolved, the universe has min(target, matches) symbols, and with
\* fewer matches than the target it holds every match
C10_UniverseLength ==
    pc \notin {"start", "match"}
        => /\ Len(coins_to_analyze) = Min(FINAL_COIN_COUNT, Cardinality(Matches))
           /\ Cardinality(Matches) < FINAL_COIN_COUNT
                 => coins_to_analyze = SelectSeq(Mapped(cmc_data.data), IsTradable)

\* a resolution cut at the target, with more matches than the target
C10_Witness ==
    /\ pc = "submit"
    /\ Cardinality(Matches) = 3
    /\ FINAL_COIN_COUNT = 2
    /\ Len(coins_to_analyze) = 2

\* C11: the resolved universe never holds the same symbol twice
C11_UniverseSymbolsUnique ==
    \A j, k \in 1..Len(coins_to_analyze) :
        coins_to_analyze[j] = coins_to_analyze[k] => j = k

\* a bulk source of the cycle came back empty or failed
NoData ==
    \/ /\ program = "flow" /\ pc # "start"
       /\ ~cmc_data.ok \/ cmc_data.data = <<>> \/ binance_symbols_set = {}
    \/ /\ program = "candle" /\ pc # "start"
       /\ symbols = <<>>

\* C12: with an empty or failed candidate source or catalog the run is over
\* at once: no work item was submitted, no read issued, nothing collected,
\* ranked or written, and no further step is taken
C12_NoDataEndsCycleBeforeDispatch ==
    NoData => /\ pc = "end"
              /\ tasks = <<>>
              /\ coins_to_analyze = <<>>
              /\ all_coin_data = <<>>
              /\ potential_shorts = <<>> /\ potential_longs = <<>>
              /\ stdout = <<>>
              /\ ~ENABLED Next

\* the candidates arrived but the venue catalog did not
C12_Witness ==
    /\ program = "flow" /\ pc = "end"
    /\ cmc_data.ok /\ cmc_data.data # <<>>
    /\ binance_symbols_set = {}

\* r is n / d when d > 0 and +infinity when d = 0
RatioIs(r, n, d) ==
    IF d > 0 THEN r.k = "fin" /\ r.d > 0 /\ r.n * d = n * r.d
    ELSE r.k = "inf"

\* C13: on every evidence with totals >= 0 the task returns, and each of its
\* two ratios is buy / sell when sell > 0 and +infinity when sell = 0, also
\* when buy = 0; it is never nan
C13_RatioInfinityOnZeroDenominator ==
    \A i \in TaskIds :
        tasks[i].state \in Terminal
            => /\ tasks[i].state = "finished"
               /\ RatioIs(tasks[i].result.limit_bs_ratio,
                          tasks[i].result.limitBuy, tasks[i].result.limitSell)
               /\ RatioIs(tasks[i].result.market_bs_ratio,
                          tasks[i].result.marketBuy, tasks[i].result.marketSell)
               /\ tasks[i].result.limitBuy = SumNotional(tasks[i].depth.bids)
               /\ tasks[i].result.limitSell = SumNotional(tasks[i].depth.asks)

\* a task that returned with 0 / 0 on the limit side and 1 / 0 on the market
\* side, and another with two finite ratios
C13_Witness ==
    \E i, j \in TaskIds :
        /\ tasks[i].state = "finished"
        /\ tasks[i].result.limitBuy = 0 /\ tasks[i].result.limitSell = 0
        /\ tasks[i].result.marketBuy = 1 /\ tasks[i].result.marketSell = 0
        /\ tasks[i].result.limit_bs_ratio = Inf
        /\ tasks[i].result.market_bs_ratio = Inf
        /\ tasks[j].state = "finished"
        /\ tasks[j].result.limitBuy = 0 /\ tasks[j].result.limitSell = 2
        /\ tasks[j].result.market_bs_ratio = Fin(2, 1)

\* the flow run is over and its two lists are built
Reported == program = "flow" /\ pc = "end"

\* C14: no symbol is in both ranked lists, and a symbol with a limit ratio of
\* 1 or a market ratio of 1 is in neither
C14_ShortLongDisjointBoundaryExcluded ==
    Reported
        => /\ \A p \in 1..Len(potential_shorts), q \in 1..Len(potential_longs) :
                  potential_shorts[p].coin # potential_longs[q].coin
           /\ \A k \in 1..Len(all_coin_data) :
                  (FloatEq(all_coin_data[k].limit_bs_ratio, One)
                   \/ FloatEq(all_coin_data[k].market_bs_ratio, One))
                      => all_coin_data[k].coin \notin Ranked

\* x <= 0 on floats
NotPositive(x) == FloatLt(x, Zero) \/ FloatEq(x, Zero)

\* limitRatio / marketRatio, +infinity when marketRatio <= 0
LimitOverMarket(c) ==
    IF NotPositive(c.market_bs_ratio) THEN Inf
    ELSE FloatDiv(c.limit_bs_ratio, c.market_bs_ratio)

\* marketRatio / limitRatio, +infinity when limitRatio <= 0
MarketOverLimit(c) ==
    IF NotPositive(c.limit_bs_ratio) THEN Inf
    ELSE FloatDiv(c.market_bs_ratio, c.limit_bs_ratio)

\* the positions of the results whose limit ratio is > 1 and market ratio < 1,
\* and of those whose limit ratio is < 1 and market ratio > 1
ShortResults ==
    {k \in 1..Len(all_coin_data) :
        /\ FloatGt(all_coin_data[k].limit_bs_ratio, One)
        /\ FloatLt(all_coin_data[k].market_bs_ratio, One)}
LongResults ==
    {k \in 1..Len(all_coin_data) :
        /\ FloatLt(all_coin_data[k].limit_bs_ratio, One)
        /\ FloatGt(all_coin_data[k].market_bs_ratio, One)}

\* list holds exactly the results at the positions wanted, each once
HoldsExactly(list, wanted) ==
    /\ Len(list) = Cardinality(wanted)
    /\ \A k \in wanted : \E p \in 1..Len(list) : list[p] = all_coin_data[k]
    /\ \A p \in 1..Len(list) : \E k \in wanted : list[p] = all_coin_data[k]

\* a result with the totals 1000, 500, 100, 300
IsExample1(c) ==
    /\ c.limitBuy = 1000 /\ c.limitSell = 500
    /\ c.marketBuy = 100 /\ c.marketSell = 300

\* C15: the short list holds exactly the results with limit ratio > 1 and
\* market ratio < 1 in non-increasing order of limitOverMarket, the long list
\* exactly those with limit ratio < 1 and market ratio > 1 in non-increasing
\* order of marketOverLimit; the totals 1000, 500, 100, 300 give the ratios
\* 2 and 1/3, the key 6 and a place in the short list
C15_ListsFilteredAndSortedDescending ==
    Reported
        => /\ HoldsExactly(potential_shorts, ShortResults)
           /\ HoldsExactly(potential_longs, LongResults)
           /\ \A p \in 1..Len(potential_shorts) :
                  FloatEq(potential_shorts[p].limit_market_ratio,
                          LimitOverMarket(potential_shorts[p]))
           /\ \A p \in 1..Len(potential_longs) :
                  FloatEq(potential_longs[p].market_limit_ratio,
                          MarketOverLimit(potential_longs[p]))
           /\ \A p, q \in 1..Len(potential_shorts) :
                  p < q => ~FloatGt(LimitOverMarket(potential_shorts[q]),
                                    LimitOverMarket(potential_shorts[p]))
           /\ \A p, q \in 1..Len(potential_longs) :
                  p < q => ~FloatGt(MarketOverLimit(potential_longs[q]),
                                    MarketOverLimit(potential_longs[p]))
           /\ \A k \in 1..Len(all_coin_data) :
                  IsExample1(all_coin_data[k])
                      => /\ FloatEq(all_coin_data[k].limit_bs_ratio, Fin(2, 1))
                         /\ FloatEq(all_coin_data[k].market_bs_ratio, Fin(1, 3))
                         /\ FloatEq(all_coin_data[k].limit_market_ratio, Fin(6, 1))
                         /\ k \in ShortResults
                         /\ \E p \in 1..Len(potential_shorts) :
                                potential_shorts[p] = all_coin_data[k]

\* two shorts: the second-ranked symbol, with the totals 1000, 500, 100, 300
\* and the key 6, is listed before the first-ranked one with the key 4
C15_Witness ==
    /\ Reported
    /\ Len(potential_shorts) = 2
    /\ potential_shorts[1].coin = "ETHUSDT"
    /\ IsExample1(potential_shorts[1])
    /\ potential_shorts[2].coin = "BTCUSDT"
    /\ FloatEq(potential_shorts[2].limit_market_ratio, Fin(4, 1))

\* the results before and after each other in list are so in the input
KeepsInputOrderOnTies(list, key(_)) ==
    \A p, q \in 1..Len(list) :
        (p < q /\ FloatEq(key(list[p]), key(list[q])))
            => \E j, k \in 1..Len(all_coin_data) :
                   /\ j < k
                   /\ all_coin_data[j] = list[p]
                   /\ all_coin_data[k] = list[q]

\* C16: in each ranked list two results with equal keys, two infinite keys
\* included, are in the order of the rank-ordered results
C16_RankingIsStable ==
    Reported
        => /\ KeepsInputOrderOnTies(potential_shorts, LimitOverMarket)
           /\ KeepsInputOrderOnTies(potential_longs, MarketOverLimit)

\* two shorts of different evidence, both with an infinite key
C16_Witness ==
    /\ Reported
    /\ Len(potential_shorts) = 2
    /\ potential_shorts[1].limit_market_ratio = Inf
    /\ potential_shorts[2].limit_market_ratio = Inf
    /\ potential_shorts[1].limit_bs_ratio # potential_shorts[2].limit_bs_ratio
    /\ potential_shorts[1].coin = "BTCUSDT"

\* C17: a symbol with limitSell = 0 and marketSell = 0 is in neither ranked
\* list, whatever its buy totals
C17_ZeroSellTotalsNeverRanked ==
    Reported
        => \A k \in 1..Len(all_coin_data) :
               (all_coin_data[k].limitSell = 0 /\ all_coin_data[k].marketSell = 0)
                   => all_coin_data[k].coin \notin Ranked

\* the seven predicates on a window of three candles
SevenPredicates(win) ==
    << win.curr.c < win.curr.o,
       win.left.c > win.left.o,
       win.mid.h > win.left.h,
       Max(win.mid.o, win.mid.c) < win.left.h,
       win.mid.l > win.left.o,
       win.curr.h < win.mid.h,
       Abs(win.mid.o - win.mid.c) < Abs(win.left.o - win.left.c) >>

\* predicate r alone is false on the window
OnlyFalse(r, win) ==
    \A k \in 1..7 : SevenPredicates(win)[k] <=> k # r

\* task i has evaluated the rules on a window of three candles
HasWindow(i) ==
    /\ program = "candle"
    /\ tasks[i].state \in {"enter_alert", "alert", "finished"}
    /\ tasks[i].klines.ok /\ Len(tasks[i].klines.candles) >= 3
    /\ WindowFormats(tasks[i].klines) = {"num"}

\* left O 10, H 13, C 12; middle O 12, H 15, L 11, C 11; current O 11, H 11, C 9
IsExample3(win) ==
    /\ win.left.o = 10 /\ win.left.h = 13 /\ win.left.c = 12
    /\ win.mid.o = 12 /\ win.mid.h = 15 /\ win.mid.l = 11 /\ win.mid.c = 11
    /\ win.curr.o = 11 /\ win.curr.h = 11 /\ win.curr.c = 9

\* C18: a task goes for its alert exactly when the seven predicates hold on
\* its window, and when it is over the alert is in the output exactly then;
\* for each predicate the windows tried hold one on which it alone is false;
\* the window of the example is alerted
C18_AlertIffAllSevenRules ==
    /\ \A r \in 1..7 : \E win \in PatternWindows : OnlyFalse(r, win)
    /\ \A i \in TaskIds :
           HasWindow(i)
               => LET win == Window(tasks[i].klines)
                      confirmed == \A k \in 1..7 : SevenPredicates(win)[k]
                  IN  /\ tasks[i].state \in {"enter_alert", "alert"} => confirmed
                      /\ tasks[i].state = "finished"
                            => (AlertsOf(tasks[i].symbol) # {} <=> confirmed)
                      /\ tasks[i].state = "finished" /\ IsExample3(win)
                            => AlertsOf(tasks[i].symbol) # {}

\* a finished scan of a window on which the seventh predicate alone is false:
\* nothing but the line of the main thread was written
C18_Witness ==
    /\ program = "candle" /\ pc = "wait"
    /\ \E i \in TaskIds :
          /\ HasWindow(i)
          /\ OnlyFalse(7, Window(tasks[i].klines))
          /\ AlertsOf(tasks[i].symbol) = {}

\* C19: a flow task goes from its order-book read to the throttle delay and
\* from there to the recent-trades read, never from one read to the other, and
\* the delay always ends in the recent-trades read, also after a failed
\* order-book read
C19_ThrottleBetweenReads ==
    /\ [][program = "flow"
            => \A i \in TaskIds :
                   /\ tasks[i].state = "queued"
                         => tasks'[i].state \in {"queued", "depth"}
                   /\ tasks[i].state = "depth"
                         => tasks'[i].state \in {"depth", "sleep"}
                   /\ tasks[i].state = "sleep"
                         => tasks'[i].state \in {"sleep", "trades"}
                   /\ tasks'[i].state = "trades"
                         => tasks[i].state \in {"sleep", "trades"}
                   /\ tasks'[i].state \in Terminal
                         => tasks[i].state \in {"trades"} \cup Terminal]_vars
    /\ [](program = "flow"
            => \A i \in TaskIds : tasks[i].state = "sleep" => ENABLED Throttle(i))

\* a task at its recent-trades read after an order-book read that failed
C19_Witness ==
    /\ program = "flow"
    /\ \E i \in TaskIds : tasks[i].state = "trades" /\ ~tasks[i].depth.ok

\* every record of the trade list has its fields
WellFormed(response) ==
    \A k \in 1..Len(response.trades) : response.trades[k].has_p

\* C20: a task whose read failed does not raise for it: after a failed
\* recent-trades read it returns with both market totals 0 and the book
\* totals it read, after a failed order-book read with both limit totals 0,
\* and a candle task without candles returns without an alert
C20_FailedReadIsZeroContribution ==
    /\ program = "flow"
          => \A i \in TaskIds :
                 tasks[i].state \in Terminal
                     => /\ ~tasks[i].trades.ok
                              => /\ tasks[i].state = "finished"
                                 /\ tasks[i].result.marketBuy = 0
                                 /\ tasks[i].result.marketSell = 0
                                 /\ tasks[i].result.limitBuy
                                        = SumNotional(tasks[i].depth.bids)
                                 /\ tasks[i].result.limitSell
                                        = SumNotional(tasks[i].depth.asks)
                        /\ (~tasks[i].depth.ok /\ WellFormed(tasks[i].trades))
                              => /\ tasks[i].state = "finished"
                                 /\ tasks[i].result.limitBuy = 0
                                 /\ tasks[i].result.limitSell = 0
                                 /\ tasks[i].result.coin = tasks[i].symbol
    /\ program = "candle"
          => \A i \in TaskIds :
                 (tasks[i].state \in Terminal /\ ~tasks[i].klines.ok)
                     => /\ tasks[i].state = "finished"
                        /\ AlertsOf(tasks[i].symbol) = {}

\* a task that returned after a failed order-book read and a recent-trades
\* read that answered: limit totals 0, market totals from the trades
C20_Witness ==
    /\ program = "flow"
    /\ \E i \in TaskIds :
          /\ tasks[i].state = "finished"
          /\ ~tasks[i].depth.ok /\ tasks[i].trades.ok
          /\ tasks[i].result.limitBuy = 0 /\ tasks[i].result.limitSell = 0
          /\ tasks[i].result.marketBuy = 1 /\ tasks[i].result.marketSell = 2

\* C21: in continuous mode a cancellation request takes effect only at the
\* cycle boundary (the inter-cycle wait or the top of the loop): main is never
\* stopped while a scan is under way, that is before every symbol was
\* dispatched and every task has finished, and no task is aborted by it.
C21_CancellationOnlyAtWait ==
    [][(pc' = "interrupted" /\ pc # "interrupted") =>
          /\ pc \in {"wait", "start"}
          /\ Len(tasks) = Len(symbols)
          /\ Done = TaskIds
          /\ tasks' = tasks]_vars

\* C22: every cycle of the candle scanner starts from zero accumulated state:
\* the step that begins a cycle is taken only when every task of the previous
\* scan is over, it sets the counter to 0, empties the task list and stores the
\* symbols just read; the counter is 0 when the first task is dispatched and
\* that task is the one of the first symbol just read; main is at the wait or
\* at the top of the loop only when every symbol has a task and every task is
\* over
C22_CycleStartsFromZero ==
    /\ [](program = "candle" /\ pc \in {"wait", "start"}
            => Len(tasks) = Len(symbols) /\ Done = TaskIds)
    /\ [][(program = "candle" /\ cycle' # cycle)
            => /\ Done = TaskIds
               /\ cycle' = cycle + 1
               /\ processed_count' = 0
               /\ tasks' = <<>>
               /\ symbols' \in SymbolLists]_vars
    /\ [][(program = "candle" /\ tasks = <<>> /\ tasks' # <<>>)
            => /\ processed_count = 0
               /\ cycle' = cycle
               /\ symbols' = symbols
               /\ tasks'[1].symbol = symbols[1]
               /\ tasks'[1].state = "queued"]_vars

\* the second cycle has dispatched its first task, the counter is 0
C22_Witness ==
    /\ program = "candle" /\ cycle = 2 /\ pc = "submit"
    /\ Len(tasks) = 1 /\ Len(symbols) = 2
    /\ processed_count = 0

\* the candles of task i are missing or fewer than three
FewerThanThree(i) == ~tasks[i].klines.ok \/ Len(tasks[i].klines.candles) < 3

\* C23: a candle task whose read failed or returned fewer than three candles
\* ends without raising and without an alert, and the step that skips it
\* changes nothing but that task; a task that read exactly three candles is
\* evaluated: it goes for its alert exactly when the seven predicates hold,
\* whatever happened to the other tasks
C23_ShortReadIsSkipped ==
    /\ [](program = "candle"
            => \A i \in TaskIds :
                  tasks[i].state \notin {"queued", "enter_count", "count", "fetch"}
                      => /\ FewerThanThree(i)
                            => /\ tasks[i].state = "finished"
                               /\ tasks[i].line = 0
                               /\ AlertsOf(tasks[i].symbol) = {}
                         /\ (tasks[i].klines.ok /\ Len(tasks[i].klines.candles) = 3
                               /\ \A k \in 1..3 : tasks[i].klines.candles[k].fmt = "num")
                            => LET c == tasks[i].klines.candles
                                   win == [left |-> c[1], mid |-> c[2], curr |-> c[3]]
                                   confirmed == \A k \in 1..7 : SevenPredicates(win)[k]
                               IN  /\ confirmed <=> (tasks[i].state \in {"enter_alert", "alert"}
                                                       \/ tasks[i].line = AlertLines)
                                   /\ tasks[i].state = "finished"
                                         => (confirmed <=> AlertsOf(tasks[i].symbol) # {}))
    /\ [][program = "candle"
            => \A i \in TaskIds :
                  (tasks[i].state = "fetch" /\ i \in DOMAIN tasks'
                      /\ tasks'[i].state # "fetch" /\ cycle' = cycle
                      /\ (~tasks'[i].klines.ok \/ Len(tasks'[i].klines.candles) < 3))
                  => /\ tasks'[i].state = "finished"
                     /\ \A j \in TaskIds \ {i} : tasks'[j] = tasks[j]
                     /\ UNCHANGED <<pc, symbols, processed_count, lock, stdout>>]_vars

\* a finished scan of two symbols: the read of the first failed, the second
\* returned exactly three candles and was alerted
C23_Witness ==
    /\ program = "candle" /\ pc = "wait" /\ Len(tasks) = 2
    /\ ~tasks[1].klines.ok /\ tasks[1].state = "finished"
    /\ Len(tasks[2].klines.candles) = 3
    /\ AlertsOf(tasks[2].symbol) # {}
    /\ AlertsOf(tasks[1].symbol) = {}

\* task i is blocked at a with lock
Blocked(i) ==
    /\ program = "candle"
    /\ tasks[i].state \in {"enter_count", "enter_alert"}
    /\ lock # 0

\* C24: every scan terminates when the threads are scheduled and the reads
\* return: a scan under way leads to the reporting stage, every dispatched
\* task leads to its end, and at the reporting stage every symbol has a task
\* that is over and the progress counter equals the number of symbols; no task
\* waits for another task to finish: a flow task never waits, a candle task
\* waits only at a with lock for a task that is inside its own with block,
\* where nothing makes it wait
C24_EveryScanTerminates ==
    /\ Scanning ~> AtReport
    /\ \A i \in 1..MaxSymbols :
           (Scanning /\ i \in TaskIds) ~> (i \in Done)
    /\ [](AtReport
            => /\ Len(tasks) = Len(Universe)
               /\ Done = TaskIds
               /\ program = "candle" => processed_count = Len(symbols)
               /\ program = "flow" => count = Len(coins_to_analyze))
    /\ [](\A i \in TaskIds :
              Blocked(i) => /\ lock \in TaskIds \ {i}
                            /\ tasks[lock].state \in {"count", "alert"})
    /\ [](program = "flow" => lock = 0)

\* the reporting stage of a candle scan of two symbols on one worker, the
\* second task queued behind a first one that raised
C24_Witness ==
    /\ program = "candle" /\ pc = "wait" /\ max_workers = 1
    /\ Len(tasks) = 2 /\ processed_count = 2
    /\ tasks[1].state = "raised" /\ tasks[2].line = AlertLines

\* C29: the candle scanner stops only at the start of a cycle whose catalog
\* read returned no symbols, before any task of that cycle is dispatched, and
\* once stopped it never takes another step; a cycle that read no symbols
\* always stops; in every other case the scheduler goes on: the wait is
\* entered only from a finished scan, the top of the loop only from the wait,
\* and every cycle that has not stopped leads to the next cycle (of the
\* MaxCycles cycles that are followed)
C29_EmptyCatalogStopsForGood ==
    /\ [][~(program = "candle" /\ pc = "end")]_vars
    /\ [][(program = "candle" /\ pc' = "end")
            => pc = "start" /\ symbols' = <<>> /\ tasks' = <<>>]_vars
    /\ [][(program = "candle" /\ cycle' # cycle /\ symbols' = <<>>)
            => pc' = "end"]_vars
    /\ [][(program = "candle" /\ pc' # pc)
            => /\ pc' = "wait" => pc = "join" /\ Done = TaskIds
               /\ pc' = "start" => pc = "wait"
               /\ pc' = "submit" => pc \in {"start", "submit"}]_vars
    /\ \A n \in 0..(MaxCycles - 1) :
           (program = "candle" /\ cycle = n /\ pc # "end") ~> (cycle = n + 1)

\* the scanner has stopped in its second cycle, after a first cycle that
\* scanned its symbols
C29_Witness ==
    /\ program = "candle" /\ pc = "end" /\ cycle = 2
    /\ symbols = <<>> /\ tasks = <<>>

\* C25: in a candle scan the progress counter equals the number of tasks that
\* have completed, with or without an exception; it never runs ahead of the
\* completed work
C25_CounterCountsCompletedTasks ==
    program = "candle" => processed_count = Cardinality(Done)

\* C26: in the flow pipeline with one worker the first venue read of a task
\* begins only after the delay that follows the previous symbol: the delay is
\* the sleep of the collection loop, so the previous task has been collected
\* when the next one issues its order-book read
C26_DelayBetweenCoins ==
    [][(program = "flow" /\ max_workers = 1)
          => \A i \in TaskIds :
                 (i > 1 /\ tasks[i].state = "queued" /\ tasks'[i].state = "depth")
                     => (i - 1) \in Range(collected)]_vars

\* task i has evaluated the rules on a list of four candles
HasFour(i) ==
    /\ program = "candle"
    /\ tasks[i].state \in {"enter_alert", "alert", "finished"}
    /\ tasks[i].klines.ok /\ Len(tasks[i].klines.candles) = 4

\* the three newest of four candles
NewestThree(c) == [left |-> c[2], mid |-> c[3], curr |-> c[4]]

\* C27: when four candles are fetched the window is the three newest ones:
\* whether the task goes for its alert, and whether the alert is in the output
\* when it is over, is decided by the seven predicates on candles 2, 3, 4
\* alone, whatever the oldest candle is, and every line of the alert carries
\* the close of the newest candle as its price
C27_OldestCandleIsIgnored ==
    \A i \in TaskIds :
        HasFour(i)
            => LET c == tasks[i].klines.candles
                   confirmed == \A k \in 1..7 : SevenPredicates(NewestThree(c))[k]
               IN  /\ tasks[i].state \in {"enter_alert", "alert"} => confirmed
                   /\ tasks[i].state = "finished"
                         => (AlertsOf(tasks[i].symbol) # {} <=> confirmed)
                   /\ \A p \in 1..Len(stdout) :
                          stdout[p].who = tasks[i].symbol => stdout[p].price = c[4].c

\* an alerted list of four candles whose three oldest do not meet the rules
\* and whose oldest candle is the wide bearish one; the price written is the
\* newest close
C27_Witness ==
    \E i \in TaskIds :
        /\ HasFour(i)
        /\ tasks[i].state = "finished"
        /\ AlertsOf(tasks[i].symbol) # {}
        /\ LET c == tasks[i].klines.candles
           IN  /\ c[1].h = 30
               /\ \E k \in 1..7 :
                      ~SevenPredicates([left |-> c[1], mid |-> c[2], curr |-> c[3]])[k]
               /\ \E p \in 1..Len(stdout) : stdout[p].price = c[4].c /\ c[4].c # c[3].c

\* x is a finite number or +infinity
WellDefined(x) == x.k = "inf" \/ (x.k = "fin" /\ x.d > 0)

\* C28: every symbol in a ranked list has a well-defined sort key: the
\* limitOverMarket of a potential short and the marketOverLimit of a potential
\* long are finite or +infinity, never the undefined infinity / infinity,
\* whatever the totals, zero totals included
C28_RankedKeysWellDefined ==
    Reported
        => /\ \A k \in 1..Len(potential_shorts) :
                  WellDefined(potential_shorts[k].limit_market_ratio)
           /\ \A k \in 1..Len(potential_longs) :
                  WellDefined(potential_longs[k].market_limit_ratio)

\* a report with a potential short whose sell book and taker buys are zero
\* (key +infinity) next to an unranked symbol whose two ratios are both
\* infinite, the quotient of which is undefined
C28_Witness ==
    /\ Reported
    /\ \E k \in 1..Len(potential_shorts) :
          /\ potential_shorts[k].limitSell = 0
          /\ potential_shorts[k].marketBuy = 0
          /\ potential_shorts[k].limit_market_ratio = Inf
    /\ \E k \in 1..Len(all_coin_data) :
          /\ all_coin_data[k].limit_bs_ratio = Inf
          /\ all_coin_data[k].market_bs_ratio = Inf
          /\ all_coin_data[k].coin \notin Ranked
          /\ FloatDiv(all_coin_data[k].limit_bs_ratio,
                      all_coin_data[k].market_bs_ratio) = NaN

====
